---- MODULE Spec2Model ----
(***************************************************************************)
(* Job lifecycle engine of the field-service backend: the transition      *)
(* table, the role gate, and the request handlers that read one job        *)
(* document and later write it.  One job id is modelled; every `await` on  *)
(* the job collection is one atomic step of a request, so requests         *)
(* interleave exactly where the event loop lets them.                      *)
(***************************************************************************)
EXTENDS Integers, Sequences, FiniteSets, TLC

\* ---- bounds of the model ------------------------------------------------
NumProcs == 2      \* concurrent in-flight requests
MaxHistory == 8    \* records in a job's statusHistory
MaxReassigns == 1  \* committed reassignments of a job

Procs == 1..NumProcs

\* ---- src/src/config/constants.js ---------------------------------------
ADMIN == "ADMIN"
OFFICE_MANAGER == "OFFICE_MANAGER"
TECHNICIAN == "TECHNICIAN"
ROLES == {ADMIN, OFFICE_MANAGER, TECHNICIAN}

TENTATIVE == "TENTATIVE"
CONFIRMED == "CONFIRMED"
ASSIGNED == "ASSIGNED"
DISPATCHED == "DISPATCHED"
IN_PROGRESS == "IN_PROGRESS"
COMPLETED == "COMPLETED"
BILLED == "BILLED"
JOB_STATUS == {TENTATIVE, CONFIRMED, ASSIGNED, DISPATCHED, IN_PROGRESS, COMPLETED, BILLED}

\* current status -> { next status -> allowed roles }
STATUS_TRANSITIONS ==
    [s \in JOB_STATUS |->
        CASE s = TENTATIVE   -> [t \in {CONFIRMED}   |-> {ADMIN}]
          [] s = CONFIRMED   -> [t \in {ASSIGNED}    |-> {ADMIN}]
          [] s = ASSIGNED    -> [t \in {DISPATCHED}  |-> {OFFICE_MANAGER}]
          [] s = DISPATCHED  -> [t \in {IN_PROGRESS} |-> {TECHNICIAN}]
          [] s = IN_PROGRESS -> [t \in {COMPLETED}   |-> {TECHNICIAN}]
          [] s = COMPLETED   -> [t \in {BILLED}      |-> {OFFICE_MANAGER}]
          [] s = BILLED      -> [t \in {}            |-> {}]]

\* ---- the actor directory (users collection, seeded, never mutated by the
\*      job routes) -------------------------------------------------------
NULL == "null"
Users == {"admin", "manager", "tech1", "tech2"}
UnknownId == "nobody"      \* a well-formed id that resolves to no user
roleOf(u) ==
    CASE u = "admin"   -> ADMIN
      [] u \in {"manager", "manager2"} -> OFFICE_MANAGER
      [] OTHER         -> TECHNICIAN

\* User.findById
UserFindById(id) == IF id \in Users THEN id ELSE NULL

\* ---- request inputs ------------------------------------------------------
\* notes: absent, empty, whitespace only, or a real note
NotesIn == {NULL, "", "  ", "bring part X"}
\* bodies of PATCH /:id/status: notes vary where the handler reads them
StatusBodies == {<<t, n>> \in JOB_STATUS \X NotesIn : n = NULL \/ t = DISPATCHED}
TechIdsIn == {"tech1", "tech2", "manager", UnknownId}
ReassignIdsIn == {"tech1", "tech2", UnknownId}
\* bodies of PUT /:id, as the set of top-level keys and operator paths they
\* supply: req.body is any JSON object, so besides plain fields it can carry
\* an update operator, { "$set": { status: "COMPLETED", statusHistory:
\* [{ fromStatus: "IN_PROGRESS", toStatus: "COMPLETED", changedBy: <manager>,
\* notes: "edited" }], assignedTechnician: <tech1>, createdBy: <manager> } }
EditBodies == {{"title", "status", "statusHistory", "assignedTechnician", "createdBy"},
               {"completedAt", "billedAt", "$set.status", "$set.statusHistory",
                "$set.assignedTechnician", "$set.createdBy"}}

\* `!notes`
Falsy(n) == n = NULL \/ n = ""
\* String.prototype.trim, and the schema's `trim: true` setter
Trim(n) == IF n = "  " THEN "" ELSE n
\* `!notes || !notes.trim()`
BlankNotes(n) == Falsy(n) \/ Trim(n) = ""
\* `notes || <generated message>`, as stored through the schema
NotesOr(n, dflt) == IF Falsy(n) THEN dflt ELSE Trim(n)

VARIABLES job, req
vars == <<job, req>>

\* ---- the job document (models/Job schema) ------------------------------
NoJob(life) ==
    [life |-> life, status |-> NULL, assignedTechnician |-> NULL,
     createdBy |-> NULL, statusHistory |-> <<>>, completedAt |-> <<>>,
     billedAt |-> <<>>, title |-> NULL]

historyEntry(from, to, by, notes) ==
    [fromStatus |-> from, toStatus |-> to, changedBy |-> by, notes |-> notes]

\* Job.findById: the document, or nothing
Found(j) == j.life = "live"

\* ---- the per-request state ----------------------------------------------
NoResult == [status |-> 0, error |-> NULL, names |-> {}]
IdleReq ==
    [op |-> "none", pc |-> "idle", user |-> NULL, newStatus |-> NULL,
     notes |-> NULL, technicianId |-> NULL, data |-> {},
     currentStatus |-> NULL, readLen |-> 0, result |-> NoResult,
     notification |-> "none", broadcast |-> "none"]

Res(code, error, names) == [status |-> code, error |-> error, names |-> names]
Ok == Res(200, NULL, {})

\* ---- JobService.validateTransition --------------------------------------
NoViolation == [msg |-> NULL, names |-> {}]

\* faulty variant: the role list of the table entry is not consulted
validateTransition_NoRole(currentStatus, newStatus, role) ==
    IF currentStatus = newStatus
    THEN [msg |-> "Job is already in this status", names |-> {}]
    ELSE LET allowed == STATUS_TRANSITIONS[currentStatus]
             valid == DOMAIN allowed
         IN  IF newStatus \notin DOMAIN allowed
             THEN [msg |-> "Invalid transition",
                   names |-> IF valid # {} THEN valid ELSE {"none (terminal state)"}]
             ELSE NoViolation

\* faulty variant: the same-status test is left to the table lookup
validateTransition_NoSame(currentStatus, newStatus, role) ==
    LET allowed == STATUS_TRANSITIONS[currentStatus]
        valid == DOMAIN allowed
    IN  IF newStatus \notin DOMAIN allowed
        THEN [msg |-> "Invalid transition",
              names |-> IF valid # {} THEN valid ELSE {"none (terminal state)"}]
        ELSE IF role \notin allowed[newStatus]
        THEN [msg |-> "Role cannot move job", names |-> allowed[newStatus]]
        ELSE NoViolation

\* faulty variant: a terminal state yields an empty list of targets
validateTransition_NoTerminal(currentStatus, newStatus, role) ==
    IF currentStatus = newStatus
    THEN [msg |-> "Job is already in this status", names |-> {}]
    ELSE LET allowed == STATUS_TRANSITIONS[currentStatus]
             valid == DOMAIN allowed
         IN  IF newStatus \notin DOMAIN allowed
             THEN [msg |-> "Invalid transition", names |-> valid]
             ELSE IF role \notin allowed[newStatus]
             THEN [msg |-> "Role cannot move job", names |-> allowed[newStatus]]
             ELSE NoViolation

\* faulty variant: the role violation names the requester's role
validateTransition_NamesRole(currentStatus, newStatus, role) ==
    IF currentStatus = newStatus
    THEN [msg |-> "Job is already in this status", names |-> {}]
    ELSE LET allowed == STATUS_TRANSITIONS[currentStatus]
             valid == DOMAIN allowed
         IN  IF newStatus \notin DOMAIN allowed
             THEN [msg |-> "Invalid transition",
                   names |-> IF valid # {} THEN valid ELSE {"none (terminal state)"}]
             ELSE IF role \notin allowed[newStatus]
             THEN [msg |-> "Role cannot move job", names |-> {role}]
             ELSE NoViolation

validateTransition(currentStatus, newStatus, role) ==
    IF currentStatus = newStatus
    THEN [msg |-> "Job is already in this status", names |-> {}]
    ELSE LET allowed == STATUS_TRANSITIONS[currentStatus]
             valid == DOMAIN allowed
         IN  IF newStatus \notin DOMAIN allowed
             THEN [msg |-> "Invalid transition",
                   names |-> IF valid # {} THEN valid ELSE {"none (terminal state)"}]
             ELSE IF role \notin allowed[newStatus]
             THEN [msg |-> "Role cannot move job", names |-> allowed[newStatus]]
             ELSE NoViolation

Init ==
    /\ job = NoJob("absent")
    /\ req = [p \in Procs |-> IdleReq]

\* A handler sends its response in the same event-loop turn in which its
\* last awaited call returns, so no step of another request falls between a
\* request's last step and Respond.
Quiet == \A q \in Procs : req[q].pc # "done"

\* a new request arrives / an awaited call of request p returns
Idle(p) == req[p].pc = "idle" /\ Quiet
\* faulty variant: the broadcast is made before the outcome is looked at
Finish_Broadcast(p, r, res) ==
    req' = [req EXCEPT ![p] = [r EXCEPT !.pc = "done", !.result = res,
                                        !.broadcast = "emitted"]]

Finish(p, r, res) == req' = [req EXCEPT ![p] = [r EXCEPT !.pc = "done", !.result = res]]

\* A request refused on arrival has read the job once and written nothing, so
\* its outcome is the same whatever other requests are in flight: refusals are
\* explored from the states in which no other request is in flight.
Refuse(p, r, res) ==
    /\ \A q \in Procs \ {p} : req[q].pc = "idle"
    /\ Finish(p, r, res)

\* ---- what a handler does between its committed write and its answer ------
\* the services around the handler when it gets there: all up, or the
\* notification store failing and no socket server attached
Envs == {"up", "down"}

\* createNotification is called without await and catches whatever its own
\* reads and inserts throw: it was invoked, and either created the
\* notifications or logged the failure
createNotification(env) == IF env = "down" THEN "failed" ELSE "created"

\* broadcastJobUpdate: if (io) io.emit('jobs:updated')
broadcastJobUpdate(env) == IF env = "down" THEN "skipped" ELSE "emitted"

\* faulty variant: the dispatcher is awaited and its failure reaches the
\* handler's catch
Notify_Awaited(p, r, res, invoked) ==
    \E env \in Envs :
        req' = [req EXCEPT ![p] =
                  [r EXCEPT !.pc = "done",
                            !.result = IF env = "down"
                                       THEN Res(500, "notification failed", {})
                                       ELSE res,
                            !.notification = createNotification(env),
                            !.broadcast = broadcastJobUpdate(env)]]

\* createNotification(...) if the handler has recipients for it,
\* broadcastJobUpdate(), then the success response
Notify(p, r, res, invoked) ==
    \E env \in Envs :
        req' = [req EXCEPT ![p] =
                  [r EXCEPT !.pc = "done", !.result = res,
                            !.notification =
                                IF invoked THEN createNotification(env) ELSE "none",
                            !.broadcast = broadcastJobUpdate(env)]]

\* ---- middleware/auth.js authorize(...allowedRoles) ----------------------
authorize(user, allowedRoles) == roleOf(user) \in allowedRoles
Forbidden == Res(403, "Access denied", {})

\* ---- JobService.createJob, behind POST /api/jobs ------------------------
createJob(userId) ==
    [life |-> "live", status |-> TENTATIVE, assignedTechnician |-> NULL,
     createdBy |-> userId,
     statusHistory |-> <<historyEntry(NULL, TENTATIVE, userId, "Job created")>>,
     completedAt |-> <<>>, billedAt |-> <<>>, title |-> "title"]

PostJob(p, user) ==
    /\ Idle(p)
    /\ job.life = "absent"
    /\ LET r == [IdleReq EXCEPT !.op = "create", !.user = user] IN
       IF ~authorize(user, {ADMIN})
       THEN Refuse(p, r, Forbidden) /\ UNCHANGED job
       ELSE /\ job' = createJob(user)
            /\ Notify(p, r, Res(201, NULL, {}), TRUE)

\* ---- JobService.transitionStatus, behind PATCH /:id/status -------------
\* steps 1-3: the read and the checks made on the snapshot
\* faulty variant: step 3 (the assigned technician) is left out
transitionChecks_NoOwner(j, newStatus, user, notes) ==
    IF ~Found(j) THEN Res(404, "Job not found", {})
    ELSE LET err == validateTransition(j.status, newStatus, roleOf(user)) IN
         IF err # NoViolation THEN Res(400, err.msg, err.names)
         ELSE IF newStatus = DISPATCHED /\ BlankNotes(notes)
         THEN Res(400, "Notes are required when dispatching", {})
         ELSE Ok

\* faulty variant: step 2b (notes when dispatching) is left out
transitionChecks_NoNotes(j, newStatus, user, notes) ==
    IF ~Found(j) THEN Res(404, "Job not found", {})
    ELSE LET err == validateTransition(j.status, newStatus, roleOf(user)) IN
         IF err # NoViolation THEN Res(400, err.msg, err.names)
         ELSE IF /\ roleOf(user) = TECHNICIAN
                 /\ (j.assignedTechnician = NULL \/ j.assignedTechnician # user)
         THEN Res(403, "You are not assigned to this job", {})
         ELSE Ok

\* faulty variant: the assignee is looked at before the transition is validated
transitionChecks_OwnerFirst(j, newStatus, user, notes) ==
    IF ~Found(j) THEN Res(404, "Job not found", {})
    ELSE IF /\ roleOf(user) = TECHNICIAN
            /\ (j.assignedTechnician = NULL \/ j.assignedTechnician # user)
    THEN Res(403, "You are not assigned to this job", {})
    ELSE LET err == validateTransition(j.status, newStatus, roleOf(user)) IN
         IF err # NoViolation THEN Res(400, err.msg, err.names)
         ELSE IF newStatus = DISPATCHED /\ BlankNotes(notes)
         THEN Res(400, "Notes are required when dispatching", {})
         ELSE Ok

transitionChecks(j, newStatus, user, notes) ==
    IF ~Found(j) THEN Res(404, "Job not found", {})
    ELSE LET err == validateTransition(j.status, newStatus, roleOf(user)) IN
         IF err # NoViolation THEN Res(400, err.msg, err.names)
         ELSE IF newStatus = DISPATCHED /\ BlankNotes(notes)
         THEN Res(400, "Notes are required when dispatching", {})
         ELSE IF /\ roleOf(user) = TECHNICIAN
                 /\ (j.assignedTechnician = NULL \/ j.assignedTechnician # user)
         THEN Res(403, "You are not assigned to this job", {})
         ELSE Ok

\* faulty variant: the filter names the document alone (find, then save)
StatusFilter_IdOnly(j, expected) == Found(j)

\* the filter { _id: jobId, status: <expected> } of findOneAndUpdate
StatusFilterMatches(j, expected) == Found(j) /\ j.status = expected

\* faulty variant: the completion and billing dates are not set
transitionUpdate_NoStamp(j, currentStatus, newStatus, user, notes, now) ==
    [j EXCEPT !.status = newStatus,
              !.statusHistory = Append(@,
                  historyEntry(currentStatus, newStatus, user,
                               NotesOr(notes, "Status changed")))]

\* step 4-5: { $set, $push: { statusHistory: historyEntry } }
transitionUpdate(j, currentStatus, newStatus, user, notes, now) ==
    [j EXCEPT !.status = newStatus,
              !.completedAt = IF newStatus = COMPLETED THEN <<now>> ELSE @,
              !.billedAt = IF newStatus = BILLED THEN <<now>> ELSE @,
              !.statusHistory = Append(@,
                  historyEntry(currentStatus, newStatus, user,
                               NotesOr(notes, "Status changed")))]

Conflict == Res(409, "Conflict: job status was changed by another request", {})

TransitionRead(p, user, newStatus, notes) ==
    /\ Idle(p)
    /\ LET r == [IdleReq EXCEPT !.op = "transition", !.user = user,
                                !.newStatus = newStatus, !.notes = notes,
                                !.currentStatus = job.status, !.readLen = Len(job.statusHistory)]
           res == transitionChecks(job, newStatus, user, notes)
       IN  IF res # Ok THEN Refuse(p, r, res)
           ELSE req' = [req EXCEPT ![p] = [r EXCEPT !.pc = "write"]]
    /\ UNCHANGED job

TransitionWrite(p) ==
    /\ Quiet
    /\ req[p].pc = "write" /\ req[p].op = "transition"
    /\ LET r == req[p] IN
       IF StatusFilterMatches(job, r.currentStatus)
       THEN /\ Len(job.statusHistory) < MaxHistory
            /\ job' = transitionUpdate(job, r.currentStatus, r.newStatus, r.user,
                                       r.notes, Len(job.statusHistory) + 1)
            /\ Notify(p, r, Ok, TRUE)
       ELSE Finish(p, r, Conflict) /\ UNCHANGED job

\* ---- JobService.assignTechnician, behind PATCH /:id/assign --------------
\* faulty variant: the resolved user's role is not looked at
assignChecks_NoRole(technicianId, user) ==
    IF UserFindById(technicianId) = NULL THEN Res(404, "Technician not found", {})
    ELSE LET err == validateTransition(CONFIRMED, ASSIGNED, roleOf(user)) IN
         IF err # NoViolation THEN Res(400, err.msg, err.names) ELSE Ok

assignChecks(technicianId, user) ==
    IF UserFindById(technicianId) = NULL THEN Res(404, "Technician not found", {})
    ELSE IF roleOf(technicianId) # TECHNICIAN THEN Res(400, "User is not a technician", {})
    ELSE LET err == validateTransition(CONFIRMED, ASSIGNED, roleOf(user)) IN
         IF err # NoViolation THEN Res(400, err.msg, err.names) ELSE Ok

assignUpdate(j, technicianId, user, notes) ==
    [j EXCEPT !.status = ASSIGNED,
              !.assignedTechnician = technicianId,
              !.statusHistory = Append(@,
                  historyEntry(CONFIRMED, ASSIGNED, user, NotesOr(notes, "Assigned to")))]

AssignStart(p, user, technicianId, notes) ==
    /\ Idle(p)
    /\ LET r == [IdleReq EXCEPT !.op = "assign", !.user = user,
                                !.technicianId = technicianId, !.notes = notes,
                                !.newStatus = ASSIGNED, !.currentStatus = CONFIRMED]
           res == IF ~authorize(user, {ADMIN}) THEN Forbidden
                  ELSE assignChecks(technicianId, user)
       IN  IF res # Ok THEN Refuse(p, r, res)
           ELSE req' = [req EXCEPT ![p] = [r EXCEPT !.pc = "write"]]
    /\ UNCHANGED job

AssignWrite(p) ==
    /\ Quiet
    /\ req[p].pc = "write" /\ req[p].op = "assign"
    /\ LET r == req[p] IN
       IF StatusFilterMatches(job, CONFIRMED)
       THEN /\ Len(job.statusHistory) < MaxHistory
            /\ job' = assignUpdate(job, r.technicianId, r.user, r.notes)
            /\ Notify(p, r, Ok, TRUE)
       ELSE /\ req' = [req EXCEPT ![p] = [r EXCEPT !.pc = "why"]]
            /\ UNCHANGED job

\* faulty variant: the lookup is used to try the write again
AssignWhy_Retry(p) ==
    /\ Quiet
    /\ req[p].pc = "why"
    /\ IF ~Found(job) THEN Finish(p, req[p], Res(404, "Job not found", {}))
       ELSE req' = [req EXCEPT ![p].pc = "write"]
    /\ UNCHANGED job

\* "Figure out why it didn't match": a second, read-only findById
AssignWhy(p) ==
    /\ Quiet
    /\ req[p].pc = "why"
    /\ IF ~Found(job) THEN Finish(p, req[p], Res(404, "Job not found", {}))
       ELSE Finish(p, req[p], Res(400, "Job must be CONFIRMED to assign", {job.status}))
    /\ UNCHANGED job

\* ---- PATCH /:id/reassign (routes/jobs.js) -------------------------------
\* faulty variant: a COMPLETED job may be reassigned too
reassignable_WithCompleted == {ASSIGNED, DISPATCHED, IN_PROGRESS, COMPLETED}

reassignableStatuses == {ASSIGNED, DISPATCHED, IN_PROGRESS}

\* faulty variant: the status is left as it was
saveReassigned_KeepStatus(j, previousStatus, technicianId, user, notes) ==
    [j EXCEPT !.assignedTechnician = technicianId,
              !.statusHistory = Append(@,
                  historyEntry(previousStatus, ASSIGNED, user,
                               NotesOr(notes, "Reassigned")))]

\* job.save() of the loaded document: the modified paths are sent as $set,
\* the pushed entry as $push, filtered on _id alone.  `job.status = ASSIGNED`
\* on a document loaded at ASSIGNED modifies nothing, so status is then not
\* part of the update.
saveReassigned(j, previousStatus, technicianId, user, notes) ==
    [j EXCEPT !.assignedTechnician = technicianId,
              !.status = IF previousStatus # ASSIGNED THEN ASSIGNED ELSE @,
              !.statusHistory = Append(@,
                  historyEntry(previousStatus, ASSIGNED, user,
                               NotesOr(notes, "Reassigned")))]

\* reassignment records are the only ones that lead to ASSIGNED from a
\* reassignable status
Reassigns(h) == Cardinality({i \in DOMAIN h : h[i].toStatus = ASSIGNED
                                             /\ h[i].fromStatus \in reassignableStatuses})
CanReassign(j) ==
    Len(j.statusHistory) < MaxHistory /\ Reassigns(j.statusHistory) < MaxReassigns

ReassignRead(p, user, technicianId, notes) ==
    /\ Idle(p)
    /\ LET r == [IdleReq EXCEPT !.op = "reassign", !.user = user,
                                !.technicianId = technicianId, !.notes = notes,
                                !.newStatus = ASSIGNED,
                                !.currentStatus = job.status, !.readLen = Len(job.statusHistory)]
       IN  IF ~authorize(user, {ADMIN}) THEN Refuse(p, r, Forbidden)
           ELSE IF ~Found(job) THEN Refuse(p, r, Res(404, "Job not found", {}))
           ELSE IF job.status \notin reassignableStatuses
           THEN Refuse(p, r, Res(400, "Cannot reassign a job in this status", {job.status}))
           ELSE req' = [req EXCEPT ![p] = [r EXCEPT !.pc = "write"]]
    /\ UNCHANGED job

\* User.findById(technicianId) only supplies a display name; then job.save()
ReassignSave(p) ==
    /\ Quiet
    /\ req[p].pc = "write" /\ req[p].op = "reassign"
    /\ LET r == req[p] IN
       IF Found(job)
       THEN /\ CanReassign(job)
            /\ job' = saveReassigned(job, r.currentStatus, r.technicianId, r.user, r.notes)
            /\ Notify(p, r, Ok, TRUE)
       ELSE \* save() of a document that is gone throws; the route answers 500
            Finish(p, r, Res(500, "No document found", {})) /\ UNCHANGED job

\* ---- DELETE /:id (routes/jobs.js) ---------------------------------------
DeleteRead(p, user) ==
    /\ Idle(p)
    /\ LET r == [IdleReq EXCEPT !.op = "delete", !.user = user]
       IN  IF ~authorize(user, {ADMIN}) THEN Refuse(p, r, Forbidden)
           ELSE IF ~Found(job) THEN Refuse(p, r, Res(404, "Job not found", {}))
           ELSE IF job.status = BILLED
           THEN Refuse(p, r, Res(400, "Billed jobs cannot be deleted", {}))
           ELSE req' = [req EXCEPT ![p] = [r EXCEPT !.pc = "write"]]
    /\ UNCHANGED job

\* Job.findByIdAndDelete: removes whatever document has the id
DeleteRemove(p) ==
    /\ Quiet
    /\ req[p].pc = "write" /\ req[p].op = "delete"
    /\ LET r == req[p] IN
       IF Found(job)
       THEN /\ job' = NoJob("deleted")
            /\ \E invoked \in BOOLEAN : Notify(p, r, Ok, invoked)
       ELSE (\E invoked \in BOOLEAN : Notify(p, r, Ok, invoked)) /\ UNCHANGED job

\* ---- PUT /:id and JobService.updateJobDetails ---------------------------
\* const { status, statusHistory, assignedTechnician, createdBy, ...safeData } = data
safeData(data) == data \ {"status", "statusHistory", "assignedTechnician", "createdBy"}

\* Job.findByIdAndUpdate(jobId, safeData): every schema path the update
\* document supplies is set, as a plain key or under a $set operator key
Supplies(safe, path) == {path, "$set." \o path} \cap safe # {}

updateJobDetails(j, data) ==
    LET safe == safeData(data) IN
    [j EXCEPT !.title = IF "title" \in safe THEN "edited" ELSE @,
              !.completedAt = IF "completedAt" \in safe THEN <<0>> ELSE @,
              !.billedAt = IF "billedAt" \in safe THEN <<0>> ELSE @,
              !.status = IF Supplies(safe, "status") THEN COMPLETED ELSE @,
              !.statusHistory = IF Supplies(safe, "statusHistory")
                               THEN <<historyEntry(IN_PROGRESS, COMPLETED, "manager", "edited")>>
                               ELSE @,
              !.assignedTechnician =
                  IF Supplies(safe, "assignedTechnician") THEN "tech1" ELSE @,
              !.createdBy = IF Supplies(safe, "createdBy") THEN "manager" ELSE @]

\* "Prevent editing BILLED jobs": existingJob && existingJob.status === BILLED
editRefused(j) == Found(j) /\ j.status = BILLED

EditCheck(p, user, data) ==
    /\ Idle(p)
    /\ LET r == [IdleReq EXCEPT !.op = "edit", !.user = user, !.data = data]
       IN  IF ~authorize(user, {ADMIN, OFFICE_MANAGER}) THEN Refuse(p, r, Forbidden)
           ELSE IF editRefused(job)
           THEN Refuse(p, r, Res(400, "Billed jobs cannot be edited", {}))
           ELSE req' = [req EXCEPT ![p] = [r EXCEPT !.pc = "write"]]
    /\ UNCHANGED job

EditUpdate(p) ==
    /\ Quiet
    /\ req[p].pc = "write" /\ req[p].op = "edit"
    /\ LET r == req[p] IN
       IF Found(job)
       THEN /\ job' = updateJobDetails(job, r.data)
            /\ Notify(p, r, Ok, TRUE)
       ELSE Finish(p, r, Res(404, "Job not found", {})) /\ UNCHANGED job

\* the response has been sent; the request's locals are gone
\* ---- GET /api/jobs/:id and GET /api/jobs/:id/history ---------------------
techVisibleStatuses == {DISPATCHED, IN_PROGRESS, COMPLETED, BILLED}
NotAuthorizedToView == Res(403, "Not authorized to view this job", {})

getJobChecks(j, user) ==
    IF ~Found(j) THEN Res(404, "Job not found", {})
    ELSE IF j.status = TENTATIVE /\ roleOf(user) # ADMIN THEN NotAuthorizedToView
    ELSE IF /\ roleOf(user) = TECHNICIAN
            /\ \/ j.status \notin techVisibleStatuses
               \/ j.assignedTechnician # user
         THEN NotAuthorizedToView
    ELSE Ok

\* the handler has one awaited call, Job.findById, and answers with what it
\* returned
GetJob(p, user) ==
    /\ Idle(p)
    /\ Refuse(p, [IdleReq EXCEPT !.op = "get", !.user = user,
                                 !.currentStatus = job.status,
                                 !.readLen = Len(job.statusHistory)],
              getJobChecks(job, user))
    /\ UNCHANGED job

getHistoryChecks(j, user) ==
    IF ~Found(j) THEN Res(404, "Job not found", {}) ELSE Ok

GetHistory(p, user) ==
    /\ Idle(p)
    /\ Refuse(p, [IdleReq EXCEPT !.op = "history", !.user = user,
                                 !.currentStatus = job.status,
                                 !.readLen = Len(job.statusHistory)],
              getHistoryChecks(job, user))
    /\ UNCHANGED job

Respond(p) ==
    /\ req[p].pc = "done"
    /\ req' = [req EXCEPT ![p] = IdleReq]
    /\ UNCHANGED job

Next ==
    \/ \E p \in Procs, u \in Users : PostJob(p, u)
    \/ \E p \in Procs, u \in Users, b \in StatusBodies :
          TransitionRead(p, u, b[1], b[2])
    \/ \E p \in Procs : TransitionWrite(p)
    \/ \E p \in Procs, u \in Users, t \in TechIdsIn : AssignStart(p, u, t, NULL)
    \/ \E p \in Procs : AssignWrite(p)
    \/ \E p \in Procs : AssignWhy(p)
    \/ \E p \in Procs, u \in Users, t \in ReassignIdsIn : ReassignRead(p, u, t, NULL)
    \/ \E p \in Procs : ReassignSave(p)
    \/ \E p \in Procs, u \in Users : DeleteRead(p, u)
    \/ \E p \in Procs : DeleteRemove(p)
    \/ \E p \in Procs, u \in Users, d \in EditBodies : EditCheck(p, u, d)
    \/ \E p \in Procs : EditUpdate(p)
    \/ \E p \in Procs, u \in Users : GetJob(p, u)
    \/ \E p \in Procs, u \in Users : GetHistory(p, u)
    \/ \E p \in Procs : Respond(p)

Spec == Init /\ [][Next]_vars

\* ---- two office managers dispatching the same job -----------------------
\* A second OFFICE_MANAGER has been registered (POST /api/auth/register) and
\* the job has been created, confirmed and assigned to tech1; from there only
\* status requests are made, by the two managers and by tech1.
RaceUsers == {"manager", "manager2", "tech1"}
RaceBodies ==
    {<<DISPATCHED, "bring part X">>, <<DISPATCHED, "call first">>,
     <<IN_PROGRESS, NULL>>, <<COMPLETED, NULL>>, <<BILLED, NULL>>}

AssignedJob ==
    assignUpdate(
        transitionUpdate(createJob("admin"), TENTATIVE, CONFIRMED, "admin", NULL, 2),
        "tech1", "admin", NULL)

RaceInit ==
    /\ job = AssignedJob
    /\ req = [p \in Procs |-> IdleReq]

RaceNext ==
    \/ \E p \in Procs, u \in RaceUsers, b \in RaceBodies :
          TransitionRead(p, u, b[1], b[2])
    \/ \E p \in Procs : TransitionWrite(p)
    \/ \E p \in Procs : Respond(p)

RaceSpec == RaceInit /\ [][RaceNext]_vars

\* =========================================================================
\* Properties
\* =========================================================================
WriteStep(p, op) ==
    req[p].pc = "write" /\ req[p].op = op /\ req'[p].pc \in {"done", "why"}

LastOf(h) == h[Len(h)]

\* C1: requests racing from one snapshot with the same target: the first to
\* write after the common read succeeds, leaving status T and one more
\* record; every later racer that finds the job as the winner left it gets
\* Conflict and changes nothing.
C1_RaceOneWinner ==
    [][\A p \in Procs :
        (WriteStep(p, "transition") /\ Found(job)) =>
           /\ ( /\ Len(job.statusHistory) = req[p].readLen
                /\ job.status = req[p].currentStatus ) =>
                 /\ req'[p].result = Ok
                 /\ job'.status = req[p].newStatus
                 /\ Len(job'.statusHistory) = req[p].readLen + 1
           /\ ( /\ Len(job.statusHistory) = req[p].readLen + 1
                /\ LastOf(job.statusHistory).fromStatus = req[p].currentStatus
                /\ LastOf(job.statusHistory).toStatus = req[p].newStatus ) =>
                 /\ req'[p].result = Conflict
                 /\ job' = job
                 /\ job.status = req[p].newStatus]_vars

\* a racer has just lost: the job is as the winner left it
C1_Witness ==
    \E p \in Procs :
        /\ req[p].pc = "done" /\ req[p].op = "transition"
        /\ req[p].result = Conflict
        /\ Found(job)
        /\ Len(job.statusHistory) = req[p].readLen + 1
        /\ LastOf(job.statusHistory).fromStatus = req[p].currentStatus
        /\ LastOf(job.statusHistory).toStatus = req[p].newStatus
        /\ job.status = req[p].newStatus

\* C2: a transition writes only when the persisted status equals the status
\* it read; when the persisted status differs it returns Conflict and the
\* document stays exactly as it was.
C2_ConditionalWrite ==
    [][\A p \in Procs :
        WriteStep(p, "transition") =>
           /\ job' # job => (Found(job) /\ job.status = req[p].currentStatus)
           /\ (Found(job) /\ job.status # req[p].currentStatus) =>
                 (req'[p].result = Conflict /\ job' = job)]_vars

C2_Witness ==
    \E p \in Procs :
        /\ req[p].pc = "done" /\ req[p].op = "transition"
        /\ req[p].result = Conflict
        /\ Found(job) /\ job.status # req[p].currentStatus
        /\ job.status # req[p].newStatus

\* C3: every existing job's history is chained: history[i].fromStatus equals
\* history[i-1].toStatus for every i > 1.
C3_HistoryChained ==
    Found(job) =>
        \A i \in 2..Len(job.statusHistory) :
            job.statusHistory[i].fromStatus = job.statusHistory[i-1].toStatus

\* C4: every existing job's status is the toStatus of its last record.
C4_StatusIsLastRecord ==
    (Found(job) /\ job.statusHistory # <<>>) => job.status = LastOf(job.statusHistory).toStatus

\* C5: a job at ASSIGNED or later has an assigned technician.
C5_TechnicianFromAssigned ==
    (Found(job) /\ job.status \in {ASSIGNED, DISPATCHED, IN_PROGRESS, COMPLETED, BILLED})
        => job.assignedTechnician # NULL

\* C6: once BILLED, no request changes the job's status, technician or
\* history again.
C6_BilledIsTerminal ==
    [][(Found(job) /\ job.status = BILLED /\ Found(job')) =>
          /\ job'.status = job.status
          /\ job'.assignedTechnician = job.assignedTechnician
          /\ job'.statusHistory = job.statusHistory]_vars

\* C7: an edit written while the persisted status is BILLED is refused and
\* changes nothing.
C7_NoEditOfBilled ==
    [][\A p \in Procs :
        (WriteStep(p, "edit") /\ Found(job) /\ job.status = BILLED) =>
            (job' = job /\ req'[p].result.status = 400)]_vars

\* C8: a job whose persisted status is BILLED is never deleted.
C8_NoDeleteOfBilled ==
    [][(Found(job) /\ job.status = BILLED) => Found(job')]_vars

\* the six rows of the documented permission table
TableEntries ==
    { <<TENTATIVE, CONFIRMED, ADMIN>>, <<CONFIRMED, ASSIGNED, ADMIN>>,
      <<ASSIGNED, DISPATCHED, OFFICE_MANAGER>>, <<DISPATCHED, IN_PROGRESS, TECHNICIAN>>,
      <<IN_PROGRESS, COMPLETED, TECHNICIAN>>, <<COMPLETED, BILLED, OFFICE_MANAGER>> }
ViolationMessages ==
    {"Job is already in this status", "Invalid transition", "Role cannot move job"}
\* the request's validateTransition call returned a violation
Violated(r) == r.pc = "done" /\ r.result.status = 400 /\ r.result.error \in ViolationMessages
\* a transition request that found the job
Validated(r) == r.op = "transition" /\ r.pc # "idle" /\ r.currentStatus # NULL

\* C9: validateTransition reports no violation exactly for the six table
\* entries.
C9_TableExact ==
    \A p \in Procs :
        Validated(req[p]) =>
            (~Violated(req[p]) <=>
                <<req[p].currentStatus, req[p].newStatus, roleOf(req[p].user)>> \in TableEntries)

C9_Witness ==
    \E p \in Procs :
        /\ Validated(req[p]) /\ req[p].pc = "done" /\ req[p].result = Ok
        /\ <<req[p].currentStatus, req[p].newStatus, roleOf(req[p].user)>> \in TableEntries
        /\ job.status = BILLED

\* C10: a request for the transition S to S is refused as 'already in this
\* status', whatever S and the role, and the job is unchanged.
C10_SameStatusRefused ==
    [][\A p \in Procs :
        ( /\ req[p].pc = "idle" /\ req'[p].op = "transition"
          /\ Found(job) /\ req'[p].newStatus = job.status ) =>
            /\ req'[p].pc = "done"
            /\ req'[p].result = Res(400, "Job is already in this status", {})
            /\ job' = job]_vars

C10_Witness ==
    \E p \in Procs :
        /\ req[p].pc = "done" /\ req[p].op = "transition"
        /\ req[p].currentStatus = BILLED /\ req[p].newStatus = BILLED
        /\ roleOf(req[p].user) = OFFICE_MANAGER
        /\ req[p].result.error = "Job is already in this status"

\* the targets and the roles the table of section 4.1 gives
TargetsOf(s) == {e[2] : e \in {x \in TableEntries : x[1] = s}}
RolesOf(s, t) == {e[3] : e \in {x \in TableEntries : x[1] = s /\ x[2] = t}}

\* C11: a request for a pair (S, T), S # T, that is not in the table is
\* refused as an invalid transition whatever the role, and the violation
\* names exactly the valid targets of S, or 'none (terminal state)' when S is
\* BILLED.
C11_InvalidNamesTargets ==
    \A p \in Procs :
        ( /\ Validated(req[p])
          /\ req[p].newStatus # req[p].currentStatus
          /\ req[p].newStatus \notin TargetsOf(req[p].currentStatus) ) =>
            /\ req[p].pc = "done"
            /\ req[p].result =
                  Res(400, "Invalid transition",
                      IF req[p].currentStatus = BILLED
                      THEN {"none (terminal state)"}
                      ELSE TargetsOf(req[p].currentStatus))

\* a TECHNICIAN has asked to move a BILLED job and was told there is no target
C11_Witness ==
    \E p \in Procs :
        /\ Validated(req[p]) /\ req[p].pc = "done"
        /\ req[p].currentStatus = BILLED /\ req[p].newStatus = TENTATIVE
        /\ roleOf(req[p].user) = TECHNICIAN
        /\ req[p].result.names = {"none (terminal state)"}

\* C12: a request for a pair (S, T) of the table by a role outside the
\* entry's role set is refused with a role violation that names exactly that
\* role set.
C12_RoleNamesAllowed ==
    \A p \in Procs :
        ( /\ Validated(req[p])
          /\ req[p].newStatus \in TargetsOf(req[p].currentStatus)
          /\ roleOf(req[p].user)
                \notin RolesOf(req[p].currentStatus, req[p].newStatus) ) =>
            /\ req[p].pc = "done"
            /\ req[p].result =
                  Res(400, "Role cannot move job",
                      RolesOf(req[p].currentStatus, req[p].newStatus))

\* an ADMIN has asked for ASSIGNED -> DISPATCHED and was told OFFICE_MANAGER
C12_Witness ==
    \E p \in Procs :
        /\ Validated(req[p]) /\ req[p].pc = "done"
        /\ req[p].currentStatus = ASSIGNED /\ req[p].newStatus = DISPATCHED
        /\ roleOf(req[p].user) = ADMIN
        /\ req[p].result.names = {OFFICE_MANAGER}

\* a transition request arrives and makes its read in this step
Arrives(p) == req[p].pc = "idle" /\ req'[p].op = "transition" /\ Found(job)

\* C13: a transition request by a TECHNICIAN who is not the job's assigned
\* technician (or on a job with none) is refused as NotAssigned and leaves
\* the job unchanged, even when the table allows the transition to the
\* TECHNICIAN role.
C13_TechnicianMustBeAssigned ==
    [][\A p \in Procs :
        ( /\ Arrives(p)
          /\ roleOf(req'[p].user) = TECHNICIAN
          /\ <<job.status, req'[p].newStatus, TECHNICIAN>> \in TableEntries
          /\ job.assignedTechnician # req'[p].user ) =>
            /\ req'[p].pc = "done"
            /\ req'[p].result = Res(403, "You are not assigned to this job", {})
            /\ job' = job]_vars

\* tech2 was refused the start of a job dispatched to tech1
C13_Witness ==
    \E p \in Procs :
        /\ req[p].pc = "done" /\ req[p].op = "transition"
        /\ req[p].user = "tech2" /\ job.assignedTechnician = "tech1"
        /\ req[p].currentStatus = DISPATCHED /\ req[p].newStatus = IN_PROGRESS
        /\ req[p].result.status = 403

\* notes that are absent, empty or only whitespace
Blank == {NULL, "", "  "}

IsPrefix(a, b) == Len(a) <= Len(b) /\ SubSeq(b, 1, Len(a)) = a

\* C15: statusHistory is append-only: every step of every request on a job
\* that exists before and after it leaves the earlier records, unchanged and
\* in order, as a prefix of the new history.
C15_HistoryAppendOnly ==
    [][(Found(job) /\ Found(job')) =>
          IsPrefix(job.statusHistory, job'.statusHistory)]_vars

\* a request has just ended with success after a write of its kind
Succeeds(p) ==
    /\ req[p].pc = "write" /\ req[p].op \in {"transition", "assign", "reassign"}
    /\ req'[p].pc = "done" /\ req'[p].result = Ok

\* C16: the history has one record for the creation and one for each
\* transition, assignment or reassignment that returned success: a step in
\* which such a request succeeds adds one record, and every other step of a
\* job that stays in existence leaves the length as it was.
C16_OneRecordPerSuccess ==
    [][(Found(job) /\ Found(job')) =>
          Len(job'.statusHistory) =
              Len(job.statusHistory) + Cardinality({p \in Procs : Succeeds(p)})]_vars

\* C17: the first record of every existing job is the creation record (null
\* to TENTATIVE) and no other record has a null fromStatus; a job that has
\* just been created is TENTATIVE, unassigned, with that record alone.
C17_CreationRecordFirst ==
    /\ Found(job) =>
          /\ job.statusHistory # <<>>
          /\ job.statusHistory[1].fromStatus = NULL
          /\ job.statusHistory[1].toStatus = TENTATIVE
          /\ \A i \in 2..Len(job.statusHistory) : job.statusHistory[i].fromStatus # NULL
    /\ \A p \in Procs :
          (req[p].pc = "done" /\ req[p].op = "create" /\ req[p].result.status = 201) =>
              /\ job.status = TENTATIVE /\ job.assignedTechnician = NULL
              /\ Len(job.statusHistory) = 1

HasRecordTo(h, t) == \E i \in DOMAIN h : h[i].toStatus = t

\* C18: completedAt (billedAt) is set exactly when the history has a record
\* with toStatus COMPLETED (BILLED).
C18_StampsMatchHistory ==
    Found(job) =>
        /\ job.completedAt # <<>> <=> HasRecordTo(job.statusHistory, COMPLETED)
        /\ job.billedAt # <<>> <=> HasRecordTo(job.statusHistory, BILLED)

\* C19: the write of a detail edit leaves status, statusHistory,
\* assignedTechnician and createdBy as they were, whatever the body supplies.
C19_EditFrame ==
    [][\A p \in Procs :
        (WriteStep(p, "edit") /\ Found(job)) =>
            /\ job'.status = job.status
            /\ job'.statusHistory = job.statusHistory
            /\ job'.assignedTechnician = job.assignedTechnician
            /\ job'.createdBy = job.createdBy]_vars

\* C20: a reassignment whose write finds a persisted status other than the
\* one it read writes nothing.
C20_ReassignConditional ==
    [][\A p \in Procs :
        ( /\ WriteStep(p, "reassign") /\ Found(job)
          /\ job.status # req[p].currentStatus ) => job' = job]_vars

\* a reassignment request arrives and makes its read in this step
ReassignArrives(p) == req[p].pc = "idle" /\ req'[p].op = "reassign"

\* C21: a reassignment request that reads the job at TENTATIVE, CONFIRMED,
\* COMPLETED or BILLED fails in that step and leaves the job unchanged (an
\* ADMIN is told the status cannot be reassigned); a reassignment reaches
\* its write, and so can succeed, only after reading the job at ASSIGNED,
\* DISPATCHED or IN_PROGRESS.
C21_ReassignOnlyFromReassignable ==
    [][\A p \in Procs :
        /\ ( /\ ReassignArrives(p) /\ Found(job)
             /\ job.status \in {TENTATIVE, CONFIRMED, COMPLETED, BILLED} ) =>
               /\ req'[p].pc = "done" /\ req'[p].result.status \in {400, 403}
               /\ roleOf(req'[p].user) = ADMIN =>
                     req'[p].result =
                        Res(400, "Cannot reassign a job in this status", {job.status})
               /\ job' = job
        /\ (ReassignArrives(p) /\ req'[p].pc = "write") =>
               (Found(job) /\ job.status \in {ASSIGNED, DISPATCHED, IN_PROGRESS})
        /\ (WriteStep(p, "reassign") /\ req'[p].result = Ok) =>
               req[p].currentStatus \in {ASSIGNED, DISPATCHED, IN_PROGRESS}]_vars

\* an ADMIN was refused the reassignment of a COMPLETED job that has a
\* technician
C21_Witness ==
    \E p \in Procs :
        /\ req[p].pc = "done" /\ req[p].op = "reassign"
        /\ roleOf(req[p].user) = ADMIN
        /\ job.status = COMPLETED /\ job.assignedTechnician # NULL
        /\ req[p].result.error = "Cannot reassign a job in this status"

\* the job is as the request read it: nothing was written in between
AsRead(p) ==
    /\ Found(job) /\ job.status = req[p].currentStatus
    /\ Len(job.statusHistory) = req[p].readLen

\* C22: a reassignment whose save finds the job as it read it, at status S
\* in {ASSIGNED, DISPATCHED, IN_PROGRESS}, succeeds and leaves status
\* ASSIGNED, the requested technician and exactly one new record, from S to
\* ASSIGNED.
C22_ReassignEffect ==
    [][\A p \in Procs :
        (WriteStep(p, "reassign") /\ AsRead(p)) =>
            /\ req'[p].result = Ok
            /\ job'.status = ASSIGNED
            /\ job'.assignedTechnician = req[p].technicianId
            /\ Len(job'.statusHistory) = Len(job.statusHistory) + 1
            /\ IsPrefix(job.statusHistory, job'.statusHistory)
            /\ LastOf(job'.statusHistory).fromStatus = job.status
            /\ LastOf(job'.statusHistory).toStatus = ASSIGNED]_vars

\* a job in progress with tech1 has just been reassigned to tech2
C22_Witness ==
    \E p \in Procs :
        /\ req[p].pc = "done" /\ req[p].op = "reassign" /\ req[p].result = Ok
        /\ req[p].currentStatus = IN_PROGRESS /\ req[p].technicianId = "tech2"
        /\ Len(job.statusHistory) = req[p].readLen + 1
        /\ job.status = ASSIGNED /\ job.assignedTechnician = "tech2"
        /\ LastOf(job.statusHistory).fromStatus = IN_PROGRESS
        /\ job.statusHistory[req[p].readLen].changedBy = "tech1"

\* C23: a reassignment whose technicianId resolves to no user fails and
\* leaves the job unchanged.
C23_ReassignUnknownTechnician ==
    [][\A p \in Procs :
        ( /\ WriteStep(p, "reassign") /\ Found(job)
          /\ UserFindById(req[p].technicianId) = NULL ) =>
            /\ req'[p].result # Ok
            /\ job' = job]_vars

\* C24: an assignedTechnician that is set refers to an existing user whose
\* role is TECHNICIAN.
C24_TechnicianIsTechnician ==
    (Found(job) /\ job.assignedTechnician # NULL) =>
        /\ UserFindById(job.assignedTechnician) # NULL
        /\ roleOf(job.assignedTechnician) = TECHNICIAN

\* an assignment request arrives, past the route's authorize(ADMIN)
AssignArrives(p) ==
    req[p].pc = "idle" /\ req'[p].op = "assign" /\ roleOf(req'[p].user) = ADMIN

\* C25: assignTechnician with a technicianId that resolves to no user fails
\* with NotFound, and with one that resolves to a user who is not a
\* TECHNICIAN fails with InvalidAssignee; in both cases the request ends
\* before any write and the job is unchanged, whatever its status.
C25_AssigneeChecked ==
    [][\A p \in Procs :
        AssignArrives(p) =>
            /\ UserFindById(req'[p].technicianId) = NULL =>
                  /\ req'[p].pc = "done"
                  /\ req'[p].result = Res(404, "Technician not found", {})
                  /\ job' = job
            /\ ( /\ UserFindById(req'[p].technicianId) # NULL
                 /\ roleOf(req'[p].technicianId) # TECHNICIAN ) =>
                  /\ req'[p].pc = "done"
                  /\ req'[p].result = Res(400, "User is not a technician", {})
                  /\ job' = job]_vars

\* the assignment of a CONFIRMED job to the office manager was refused
C25_Witness ==
    \E p \in Procs :
        /\ req[p].pc = "done" /\ req[p].op = "assign"
        /\ roleOf(req[p].user) = ADMIN /\ req[p].technicianId = "manager"
        /\ job.status = CONFIRMED
        /\ req[p].result = Res(400, "User is not a technician", {})

\* C26: an assignment succeeds exactly when its write finds the job at
\* CONFIRMED; on success the job is ASSIGNED to the requested technician
\* with exactly one new record CONFIRMED to ASSIGNED; a write that does not
\* succeed changes nothing, so of two assignments racing on a CONFIRMED job
\* one succeeds and assignedTechnician stays the winner's.
C26_AssignConditional ==
    [][\A p \in Procs :
        WriteStep(p, "assign") =>
            /\ req'[p].result = Ok <=> (Found(job) /\ job.status = CONFIRMED)
            /\ req'[p].result = Ok =>
                  /\ job'.status = ASSIGNED
                  /\ job'.assignedTechnician = req[p].technicianId
                  /\ Len(job'.statusHistory) = Len(job.statusHistory) + 1
                  /\ IsPrefix(job.statusHistory, job'.statusHistory)
                  /\ LastOf(job'.statusHistory).fromStatus = CONFIRMED
                  /\ LastOf(job'.statusHistory).toStatus = ASSIGNED
            /\ req'[p].result # Ok => job' = job]_vars

\* two assignments, to tech1 and to tech2, are in flight on the job: one has
\* just won the write, the other has yet to make its own
C26_Witness ==
    \E p, q \in Procs :
        /\ req[p].pc = "done" /\ req[p].op = "assign" /\ req[p].result = Ok
        /\ req[q].pc = "write" /\ req[q].op = "assign"
        /\ req[p].technicianId = "tech1" /\ req[q].technicianId = "tech2"
        /\ job.status = ASSIGNED /\ job.assignedTechnician = "tech1"
        /\ LastOf(job.statusHistory).fromStatus = CONFIRMED

\* C27: a transition request is answered Conflict only when the job exists
\* at its write with a status other than the one read (a job that is gone is
\* answered NotFound).
C27_ConflictMeansExists ==
    [][\A p \in Procs :
        (WriteStep(p, "transition") /\ req'[p].result = Conflict) =>
            (Found(job) /\ job.status # req[p].currentStatus)]_vars

\* how far a request has got: arrival, write, follow-up lookup, answer
Rank(pc) == CASE pc = "idle" -> 0 [] pc = "write" -> 1 [] pc = "why" -> 2 [] OTHER -> 3

\* C28: a transition or assignment request only moves forward (arrival,
\* one write, for an assignment possibly one lookup, answer) and changes the
\* job in no step but its write: no second write, no retry.
C28_OneWriteAttempt ==
    [][\A p \in Procs :
        req'[p] # req[p] =>
            /\ (req[p].pc # "idle" /\ req[p].op \in {"transition", "assign"}) =>
                  \/ req[p].pc = "done" /\ req'[p] = IdleReq
                  \/ /\ Rank(req'[p].pc) > Rank(req[p].pc)
                     /\ req'[p].op = req[p].op
                     /\ req[p].pc # "write" => job' = job
            /\ (req[p].pc = "idle" /\ req'[p].op \in {"transition", "assign"}) =>
                  job' = job]_vars

\* an assignment lost its one write and has made its read-only lookup
C28_Witness ==
    \E p \in Procs :
        /\ req[p].pc = "done" /\ req[p].op = "assign"
        /\ req[p].result = Res(400, "Job must be CONFIRMED to assign", {job.status})
        /\ job.status = ASSIGNED

\* C29: the caller of a transition is told success exactly when the
\* conditional write committed; a dispatcher that fails or a broadcast that
\* is not delivered leaves the answer a success and the write in place.
C29_NotifyFailureHarmless ==
    [][\A p \in Procs :
        WriteStep(p, "transition") =>
            /\ req'[p].result = Ok <=> job' # job
            /\ req'[p].result = Ok <=> (Found(job) /\ job.status = req[p].currentStatus)
            /\ (req'[p].notification = "failed" \/ req'[p].broadcast = "skipped") =>
                  /\ req'[p].result = Ok
                  /\ job'.status = req[p].newStatus
                  /\ Len(job'.statusHistory) = Len(job.statusHistory) + 1
                  /\ LastOf(job'.statusHistory).toStatus = req[p].newStatus]_vars

\* a dispatch committed and was answered 200 although the dispatcher failed
\* and no broadcast went out
C29_Witness ==
    \E p \in Procs :
        /\ req[p].pc = "done" /\ req[p].op = "transition"
        /\ req[p].notification = "failed" /\ req[p].broadcast = "skipped"
        /\ req[p].result = Ok
        /\ req[p].newStatus = DISPATCHED /\ job.status = DISPATCHED
        /\ LastOf(job.statusHistory).toStatus = DISPATCHED

\* C30: a transition, assignment or reassignment request invokes the
\* dispatcher and the broadcast only in the step in which its write commits
\* and it answers success; a request that ends in a failure invokes neither.
C30_NotifyAfterCommit ==
    [][\A p \in Procs :
        ( /\ req'[p] # req[p]
          /\ req'[p].op \in {"transition", "assign", "reassign"} ) =>
            /\ (req'[p].notification # "none" \/ req'[p].broadcast # "none") =>
                  /\ req[p].pc = "write"
                  /\ job' # job
                  /\ req'[p].result = Ok
            /\ (req'[p].pc = "done" /\ req'[p].result # Ok) =>
                  (req'[p].notification = "none" /\ req'[p].broadcast = "none")]_vars

\* a transition that lost its race was answered Conflict and invoked nothing
C30_Witness ==
    \E p \in Procs :
        /\ req[p].pc = "done" /\ req[p].op = "transition"
        /\ req[p].result = Conflict
        /\ req[p].notification = "none" /\ req[p].broadcast = "none"

\* the end-to-end scenario of section 8, as the records it leaves
ScenarioRecords ==
    << historyEntry(NULL, TENTATIVE, "admin", "Job created"),
       historyEntry(TENTATIVE, CONFIRMED, "admin", "Status changed"),
       historyEntry(CONFIRMED, ASSIGNED, "admin", "Assigned to"),
       historyEntry(ASSIGNED, DISPATCHED, "manager", "bring part X"),
       historyEntry(DISPATCHED, IN_PROGRESS, "tech1", "Status changed"),
       historyEntry(IN_PROGRESS, COMPLETED, "tech1", "Status changed"),
       historyEntry(COMPLETED, BILLED, "manager", "Status changed") >>

\* the job is where the first k steps of the scenario leave it
OnScenario(j, k) ==
    /\ Found(j)
    /\ j.statusHistory = SubSeq(ScenarioRecords, 1, k)
    /\ j.status = ScenarioRecords[k].toStatus
    /\ j.assignedTechnician = IF k >= 3 THEN "tech1" ELSE NULL
    /\ j.completedAt # <<>> <=> k >= 6
    /\ j.billedAt # <<>> <=> k = 7

\* request r is step k + 1 of the scenario, about to make its write
ScenarioRequest(r, k) ==
    /\ r.pc = "write"
    /\ r.user = ScenarioRecords[k + 1].changedBy
    /\ IF k = 2 THEN r.op = "assign" /\ r.technicianId = "tech1"
       ELSE /\ r.op = "transition" /\ r.newStatus = ScenarioRecords[k + 1].toStatus
            /\ r.currentStatus = ScenarioRecords[k].toStatus
            /\ r.notes = IF k = 3 THEN "bring part X" ELSE NULL

\* steps 1 to 7 of the scenario succeed one after the other
ScenarioSucceeds ==
    \A p \in Procs :
        /\ (req[p].pc = "idle" /\ req'[p].op = "create" /\ req'[p].user = "admin") =>
              (req'[p].result.status = 201 /\ OnScenario(job', 1))
        /\ \A k \in 1..6 :
              /\ ( /\ OnScenario(job, k) /\ req[p].pc = "idle"
                   /\ req'[p].op = (IF k = 2 THEN "assign" ELSE "transition")
                   /\ ScenarioRequest([req'[p] EXCEPT !.pc = "write"], k) ) =>
                     req'[p].pc = "write"
              /\ ( /\ OnScenario(job, k) /\ ScenarioRequest(req[p], k)
                   /\ req'[p] # req[p] ) =>
                     (req'[p].result = Ok /\ OnScenario(job', k + 1))

\* a transition request arrives at the job the scenario has left BILLED
AfterScenario(p) == Arrives(p) /\ OnScenario(job, 7)

\* C31 as stated: after the scenario every further transition request, to
\* any target, fails as an invalid transition with 'none (terminal state)'.
C31_AnyTargetNoneTerminal ==
    [][\A p \in Procs :
        AfterScenario(p) =>
            req'[p].result = Res(400, "Invalid transition", {"none (terminal state)"})]_vars

\* C31: the scenario create, confirm, assign tech1, dispatch with notes,
\* start, complete, bill succeeds at every step, through the seven statuses
\* with history lengths 1 to 7, completedAt set at COMPLETED and billedAt at
\* BILLED; after it a transition request by any role fails, to a target
\* other than BILLED as an invalid transition with 'none (terminal state)'
\* and to BILLED as 'already in this status'.
C31_Scenario ==
    [][/\ ScenarioSucceeds
       /\ \A p \in Procs :
            AfterScenario(p) =>
                /\ req'[p].pc = "done" /\ job' = job
                /\ req'[p].result =
                      IF req'[p].newStatus = BILLED
                      THEN Res(400, "Job is already in this status", {})
                      ELSE Res(400, "Invalid transition", {"none (terminal state)"})]_vars

\* the scenario has run to its end and tech1 has then asked to start the job
C31_Witness ==
    \E p \in Procs :
        /\ OnScenario(job, 7) /\ Len(job.statusHistory) = 7
        /\ req[p].pc = "done" /\ req[p].op = "transition"
        /\ req[p].user = "tech1" /\ req[p].newStatus = IN_PROGRESS
        /\ req[p].result.names = {"none (terminal state)"}

DispatchRecords(h) == {i \in DOMAIN h : h[i].toStatus = DISPATCHED}

\* C32: the record a successful transition appends carries the status the
\* request read, its target, its actor and its notes, and a request that is
\* not told success appends nothing; when two office managers race to
\* dispatch the ASSIGNED job with different notes the history has exactly
\* one dispatch record, the winner's.
C32_RecordIsWinners ==
    [][/\ \A p \in Procs :
            WriteStep(p, "transition") =>
                IF req'[p].result = Ok
                THEN /\ Len(job'.statusHistory) = Len(job.statusHistory) + 1
                     /\ IsPrefix(job.statusHistory, job'.statusHistory)
                     /\ LastOf(job'.statusHistory).fromStatus = req[p].currentStatus
                     /\ LastOf(job'.statusHistory).toStatus = req[p].newStatus
                     /\ LastOf(job'.statusHistory).changedBy = req[p].user
                     /\ req[p].notes \notin Blank =>
                           LastOf(job'.statusHistory).notes = req[p].notes
                ELSE job' = job
       /\ job'.status # ASSIGNED =>
            Cardinality(DispatchRecords(job'.statusHistory)) = 1]_vars

\* manager2's dispatch with "call first" lost to manager's with "bring part
\* X": it was answered Conflict and the one dispatch record is manager's
C32_Witness ==
    \E p \in Procs :
        /\ req[p].pc = "done" /\ req[p].op = "transition" /\ req[p].result = Conflict
        /\ req[p].user = "manager2" /\ req[p].notes = "call first"
        /\ req[p].newStatus = DISPATCHED /\ req[p].currentStatus = ASSIGNED
        /\ job.status = DISPATCHED
        /\ \A i \in DispatchRecords(job.statusHistory) :
              /\ job.statusHistory[i].changedBy = "manager"
              /\ job.statusHistory[i].notes = "bring part X"

\* a read of the single job by request p is answered with the job's data
ReadAnswered(p) ==
    /\ req[p].pc = "idle"
    /\ req'[p].op \in {"get", "history"}
    /\ req'[p].result = Ok

\* C33: a TECHNICIAN is given a job's data (details or status history) only
\* when the job is assigned to that technician and is DISPATCHED,
\* IN_PROGRESS, COMPLETED or BILLED, and the data of a TENTATIVE job is given
\* to an ADMIN only, on the detail endpoint and on the history endpoint.
C33_ReadVisibility ==
    [][\A p \in Procs :
          ReadAnswered(p) =>
             /\ roleOf(req'[p].user) = TECHNICIAN =>
                   /\ job.assignedTechnician = req'[p].user
                   /\ job.status \in {DISPATCHED, IN_PROGRESS, COMPLETED, BILLED}
             /\ job.status = TENTATIVE => roleOf(req'[p].user) = ADMIN]_vars

\* the same statement for the detail endpoint alone
C33_DetailVisibility ==
    [][\A p \in Procs :
          (ReadAnswered(p) /\ req'[p].op = "get") =>
             /\ roleOf(req'[p].user) = TECHNICIAN =>
                   /\ job.assignedTechnician = req'[p].user
                   /\ job.status \in {DISPATCHED, IN_PROGRESS, COMPLETED, BILLED}
             /\ job.status = TENTATIVE => roleOf(req'[p].user) = ADMIN]_vars

\* C34: a transition request that breaks several rules is answered with the
\* first failure in the order job not found, invalid transition (same
\* status, target not in the table, role not allowed), missing dispatch
\* notes, not assigned; the refusal leaves the job unchanged.
C34_FirstFailureReported ==
    [][\A p \in Procs :
          (req[p].pc = "idle" /\ req'[p].op = "transition") =>
             LET r == req'[p]
                 invalid == <<job.status, r.newStatus, roleOf(r.user)>> \notin TableEntries
                 noNote == r.newStatus = DISPATCHED /\ r.notes \in Blank
                 notAssigned == /\ roleOf(r.user) = TECHNICIAN
                                /\ job.assignedTechnician # r.user
                 refused == r.pc = "done" /\ job' = job
             IN  /\ ~Found(job) => refused /\ r.result = Res(404, "Job not found", {})
                 /\ (Found(job) /\ invalid) =>
                        /\ refused /\ r.result.status = 400
                        /\ r.result.error \in ViolationMessages
                 /\ (Found(job) /\ ~invalid /\ noNote) =>
                        /\ refused
                        /\ r.result = Res(400, "Notes are required when dispatching", {})
                 /\ (Found(job) /\ ~invalid /\ ~noNote /\ notAssigned) =>
                        /\ refused
                        /\ r.result = Res(403, "You are not assigned to this job", {})
                 /\ (Found(job) /\ ~invalid /\ ~noNote /\ ~notAssigned) =>
                        r.pc = "write"]_vars

\* tech2, who is not the assignee, asked to complete the job dispatched to
\* tech1 and was told the transition is invalid
C34_Witness ==
    \E p \in Procs :
        /\ req[p].pc = "done" /\ req[p].op = "transition"
        /\ req[p].user = "tech2" /\ job.assignedTechnician = "tech1"
        /\ job.status = DISPATCHED /\ req[p].currentStatus = DISPATCHED
        /\ req[p].newStatus = COMPLETED
        /\ req[p].result.status = 400
        /\ req[p].result.error \in ViolationMessages

\* the OFFICE_MANAGER asked to dispatch a CONFIRMED job without notes and was
\* told the transition is invalid
C34_WitnessDispatch ==
    \E p \in Procs :
        /\ req[p].pc = "done" /\ req[p].op = "transition"
        /\ req[p].user = "manager" /\ req[p].notes \in Blank
        /\ job.status = CONFIRMED /\ req[p].currentStatus = CONFIRMED
        /\ req[p].newStatus = DISPATCHED
        /\ req[p].result.status = 400
        /\ req[p].result.error \in ViolationMessages

\* C35: every transition committed for a TECHNICIAN is committed while that
\* technician is the job's assignedTechnician at the moment of the write.
C35_TechnicianWritesOwnJob ==
    [][\A p \in Procs :
          ( /\ WriteStep(p, "transition")
            /\ roleOf(req[p].user) = TECHNICIAN
            /\ job' # job ) =>
               /\ job.assignedTechnician = req[p].user
               /\ job'.assignedTechnician = req[p].user]_vars

\* the statuses in the order of the linear flow
FlowRank(s) ==
    CASE s = TENTATIVE -> 1 [] s = CONFIRMED -> 2 [] s = ASSIGNED -> 3
      [] s = DISPATCHED -> 4 [] s = IN_PROGRESS -> 5 [] s = COMPLETED -> 6
      [] s = BILLED -> 7

\* C36: every step that changes the persisted status of a job moves it along
\* an edge of the transition table, or from DISPATCHED or IN_PROGRESS back to
\* ASSIGNED; the status never moves back from COMPLETED or BILLED and never
\* skips a status.
C36_StatusStepsFollowTable ==
    [][(Found(job) /\ Found(job') /\ job'.status # job.status) =>
          \/ job'.status \in TargetsOf(job.status)
          \/ job.status \in {DISPATCHED, IN_PROGRESS} /\ job'.status = ASSIGNED]_vars

\* the part of C36 about reassignment: the save of a reassignment moves the
\* status to ASSIGNED from ASSIGNED, DISPATCHED or IN_PROGRESS only, never
\* from COMPLETED or BILLED
C36_ReassignNoWayBack ==
    [][\A p \in Procs :
          (WriteStep(p, "reassign") /\ job'.status # job.status) =>
              FlowRank(job.status) <= FlowRank(IN_PROGRESS)]_vars

\* the role of the record's author is allowed for its pair of statuses, or
\* the record is a reassignment made by an ADMIN
AuthorizedRecord(e) ==
    \/ roleOf(e.changedBy) \in RolesOf(e.fromStatus, e.toStatus)
    \/ /\ e.toStatus = ASSIGNED
       /\ e.fromStatus \in {ASSIGNED, DISPATCHED, IN_PROGRESS}
       /\ roleOf(e.changedBy) = ADMIN

\* C37: every history record other than the creation record was authored by
\* an actor whose role the transition table allows for the record's pair of
\* statuses, or, for a reassignment record, by an ADMIN.
C37_RecordsAuthorized ==
    Found(job) =>
        \A i \in DOMAIN job.statusHistory :
            job.statusHistory[i].fromStatus # NULL =>
                AuthorizedRecord(job.statusHistory[i])

\* C38: when an assignment fails with 'Job must be CONFIRMED to assign.
\* Current status: X', the status X it names is never CONFIRMED.
C38_DiagnosticNotConfirmed ==
    \A p \in Procs :
        ( /\ req[p].op = "assign" /\ req[p].pc = "done"
          /\ req[p].result.error = "Job must be CONFIRMED to assign" ) =>
            CONFIRMED \notin req[p].result.names
====
